---- MODULE Spec2Model ----
(***************************************************************************)
(* The employee generator of src/main.js (lenient, many age aliases, ISO   *)
(* birthdates, surname repair pass) and of src/unnamed/part_000 (lenient,  *)
(* ageRange only, date-only birthdates, no repair pass).                   *)
(*                                                                         *)
(* A run of main(dtoIn) is the sequence: normalise the input, one loop     *)
(* iteration per employee, then (main.js) the repair pass and the return.  *)
(* The input, the clock and the outcomes of Math.random() are the          *)
(* environment.                                                            *)
(*                                                                         *)
(* Time is counted in units of six hours since 1970-01-01T00:00Z, so that  *)
(* the 365.25 days of MS_PER_YEAR are the whole number 1461.               *)
(***************************************************************************)
EXTENDS Integers, Sequences, FiniteSets, TLC

VARIABLES variant, dtoIn, now, pc, employeeCount, minAge, maxAge,
          minCandidate, maxCandidate, i, employees, generated, randomIntOk

\* variant       which of the two files runs
\* dtoIn, now    the argument of main and the clock's reading
\* pc            "start", "loop", then "done" (returned) or "thrown"
\* employeeCount, minAge, maxAge, minCandidate, maxCandidate, i, employees
\*               the variables of main of these names
\* generated     the list as the loop left it, kept when main returns
\* randomIntOk   whether every call of randomInt so far had min <= max
vars == <<variant, dtoIn, now, pc, employeeCount, minAge, maxAge,
          minCandidate, maxCandidate, i, employees, generated, randomIntOk>>

MainJs == "main.js"
Part000 == "part_000"

-----------------------------------------------------------------------------
(* JavaScript values.  A primitive is [t, v]: its kind and, for an integer  *)
(* number, its value (for a string, its length; for a non-integer number,   *)
(* its floor).  An object is [t, v, f] with f its own properties; a         *)
(* property it does not have reads as undefined.                            *)

Undefined == [t |-> "undefined", v |-> 0]
Null == [t |-> "null", v |-> 0]
Num(n) == [t |-> "integer", v |-> n]
NonInteger == [t |-> "fraction", v |-> 2]
Str(len) == [t |-> "string", v |-> len]
Bool(b) == [t |-> "boolean", v |-> IF b THEN 1 ELSE 0]
Obj(props) == [t |-> "object", v |-> 0, f |-> props]

\* An object from a set of <<key, value>> pairs (at most one pair per key).
Props(pairs) ==
    [k \in {p[1] : p \in pairs} |-> (CHOOSE p \in pairs : p[1] = k)[2]]

TypeOf(x) ==
    CASE x.t \in {"integer", "fraction"} -> "number"
      [] x.t = "null" -> "object"
      [] OTHER -> x.t

IsInteger(x) == x.t = "integer"

IsNullish(x) == x.t \in {"undefined", "null"}

Truthy(x) ==
    CASE x.t \in {"undefined", "null"} -> FALSE
      [] x.t \in {"integer", "string", "boolean"} -> x.v # 0
      [] OTHER -> TRUE

\* x.k for a value x that is neither null nor undefined.
Get(x, k) == IF x.t = "object" /\ k \in DOMAIN x.f THEN x.f[k] ELSE Undefined

\* x[keys[1]] ?? x[keys[2]] ?? ... ?? x[keys[n]]
RECURSIVE Coalesce(_, _)
Coalesce(x, keys) ==
    IF Len(keys) = 1 \/ ~IsNullish(Get(x, Head(keys)))
    THEN Get(x, Head(keys))
    ELSE Coalesce(x, Tail(keys))

-----------------------------------------------------------------------------
(* Normalisation of the input.                                             *)

CountKeys == <<"employeeCount", "personCount", "count">>
MinAliases == <<"min", "minAge", "ageMin", "from", "start", "lower", "youngest">>
MaxAliases == <<"max", "maxAge", "ageMax", "to", "end", "upper", "oldest">>

DefaultMinAge == 18
DefaultMaxAge == 65

IsObject(x) == TypeOf(x) = "object" /\ x.t # "null"

ValidCount(c) == IsInteger(c) /\ c.v >= 0

ResolveCount(safeDtoIn) ==
    IF TypeOf(safeDtoIn) = "number"
    THEN IF ValidCount(safeDtoIn) THEN safeDtoIn.v ELSE 0
    ELSE IF IsObject(safeDtoIn)
         THEN LET candidate == Coalesce(safeDtoIn, CountKeys)
              IN  IF ValidCount(candidate) THEN candidate.v ELSE 0
         ELSE 0

\* The candidate objects of main.js, in the order they are pushed.
Candidates(safeDtoIn) ==
    LET ageRange == Get(safeDtoIn, "ageRange")
        age == Get(safeDtoIn, "age")
    IN  (IF Truthy(ageRange) /\ TypeOf(ageRange) = "object" THEN <<ageRange>> ELSE <<>>)
        \o (IF Truthy(age) /\ TypeOf(age) = "object" THEN <<age>> ELSE <<>>)
        \o <<safeDtoIn>>

\* The loop over the candidates for one bound: a candidate object is asked
\* only while the bound's candidate value is still undefined.
RECURSIVE PickCandidate(_, _, _)
PickCandidate(sources, aliases, cand) ==
    IF sources = <<>>
    THEN cand
    ELSE PickCandidate(Tail(sources), aliases,
                       IF cand.t = "undefined"
                       THEN Coalesce(Head(sources), aliases)
                       ELSE cand)

\* "Validate and apply min candidate".
ApplyMin(cand) ==
    IF IsInteger(cand) /\ cand.v >= 0 THEN cand.v ELSE DefaultMinAge

\* The same with the candidate compared to 0, not to minAge.
ApplyMaxAnyNonNegative(cand, lo) ==
    LET hi == IF IsInteger(cand) /\ cand.v >= 0 THEN cand.v ELSE DefaultMaxAge
    IN  IF hi < lo THEN lo ELSE hi

\* "Validate and apply max candidate, must not be below minAge", then the
\* final safety check.
ApplyMax(cand, lo) ==
    LET hi == IF IsInteger(cand) /\ cand.v >= lo THEN cand.v ELSE DefaultMaxAge
    IN  IF hi < lo THEN lo ELSE hi

\* dtoIn ?? null
SafeDtoIn(x) == IF IsNullish(x) THEN Null ELSE x

\* main.js, lines 19-104.
NormalizeMain ==
    /\ pc = "start"
    /\ variant = MainJs
    /\ employeeCount' = ResolveCount(SafeDtoIn(dtoIn))
    /\ IF IsObject(SafeDtoIn(dtoIn))
       THEN LET lo == PickCandidate(Candidates(dtoIn), MinAliases, Undefined)
                hi == PickCandidate(Candidates(dtoIn), MaxAliases, Undefined)
            IN  /\ minCandidate' = lo
                /\ maxCandidate' = hi
                /\ minAge' = ApplyMin(lo)
                /\ maxAge' = ApplyMax(hi, ApplyMin(lo))
       ELSE /\ minAge' = DefaultMinAge
            /\ maxAge' = DefaultMaxAge
            /\ UNCHANGED <<minCandidate, maxCandidate>>
    /\ pc' = "loop"
    /\ UNCHANGED <<variant, dtoIn, now, i, employees, generated, randomIntOk>>

\* part_000, lines 9-49.
NormalizePart ==
    /\ pc = "start"
    /\ variant = Part000
    /\ employeeCount' = ResolveCount(SafeDtoIn(dtoIn))
    /\ IF IsObject(SafeDtoIn(dtoIn)) /\ Truthy(Get(dtoIn, "ageRange"))
       THEN LET lo == Get(Get(dtoIn, "ageRange"), "min")
                hi == Get(Get(dtoIn, "ageRange"), "max")
            IN  /\ minCandidate' = lo
                /\ maxCandidate' = hi
                /\ minAge' = ApplyMin(lo)
                /\ maxAge' = ApplyMax(hi, ApplyMin(lo))
       ELSE /\ minAge' = DefaultMinAge
            /\ maxAge' = DefaultMaxAge
            /\ UNCHANGED <<minCandidate, maxCandidate>>
    /\ pc' = "loop"
    /\ UNCHANGED <<variant, dtoIn, now, i, employees, generated, randomIntOk>>

-----------------------------------------------------------------------------
(* The calendar of the Date built-in (proleptic Gregorian, UTC).           *)

\* Days from 1970-01-01 to the civil date year-month-day.
DaysFromCivil(year, month, day) ==
    LET y   == IF month <= 2 THEN year - 1 ELSE year
        era == y \div 400
        yoe == y - era * 400
        mp  == IF month > 2 THEN month - 3 ELSE month + 9
        doy == (153 * mp + 2) \div 5 + day - 1
        doe == yoe * 365 + yoe \div 4 - yoe \div 100 + doy
    IN  era * 146097 + doe - 719468

\* The civil date of a day number.
CivilFromDays(days) ==
    LET z   == days + 719468
        era == z \div 146097
        doe == z - era * 146097
        yoe == (doe - doe \div 1460 + doe \div 36524 - doe \div 146096) \div 365
        doy == doe - (365 * yoe + yoe \div 4 - yoe \div 100)
        mp  == (5 * doy + 2) \div 153
        d   == doy - (153 * mp + 2) \div 5 + 1
        m   == IF mp < 10 THEN mp + 3 ELSE mp - 9
    IN  [year |-> yoe + era * 400 + (IF m <= 2 THEN 1 ELSE 0),
         month |-> m, day |-> d]

UnitsPerDay == 4

\* A Date holds a time value of at most 100,000,000 days either side of
\* the epoch; beyond that it is an invalid Date.
MaxDay == 100000000
MaxTime == MaxDay * UnitsPerDay

Instant(year, month, day, hour) ==
    DaysFromCivil(year, month, day) * UnitsPerDay + hour \div 6

\* new Date(t).toISOString(), t a valid time value: the date and the hour.
ToISOString(t) ==
    LET c == CivilFromDays(t \div UnitsPerDay)
    IN  [year |-> c.year, month |-> c.month, day |-> c.day,
         hour |-> (t % UnitsPerDay) * 6]

\* new Date().getFullYear()
CurrentYear(t) == CivilFromDays(t \div UnitsPerDay).year

\* new Date(year, month, 0).getDate(): the last day of the month, counted
\* from 1, of the year (a year 0..99 is taken as 1900 + year); NaN when the
\* Date is invalid.
DaysInMonth(year, month) ==
    LET yr == IF 0 <= year /\ year <= 99 THEN 1900 + year ELSE year
        last == DaysFromCivil(yr + month \div 12, (month % 12) + 1, 1) - 1
    IN  IF last < -MaxDay \/ last > MaxDay
        THEN [nan |-> TRUE, n |-> 0]
        ELSE [nan |-> FALSE, n |-> CivilFromDays(last).day]

-----------------------------------------------------------------------------
(* The random source.  An outcome of Math.random() is <<p, q>>: the number *)
(* p/q when p < q, and the largest number below 1 when p = q.              *)

Zero == <<0, 1>>
AlmostOne == <<1, 1>>

\* Math.floor(r * n), n >= 1 a whole number.
FloorTimes(r, n) == IF r[1] = r[2] THEN n - 1 ELSE (r[1] * n) \div r[2]

\* main.js lines 157-160, part_000 lines 86-88.
randomInt(min, max, r) == FloorTimes(r, max - min + 1) + min

maleNames == <<"Peter", "John", "Martin", "Thomas", "Michael", "James", "Robert", "William">>
femaleNames == <<"Emma", "Olivia", "Sophia", "Ava", "Isabella", "Mia", "Emily", "Amelia">>
surnames == <<"Smith", "Johnson", "Brown", "Taylor", "Anderson", "Thomas", "Jackson", "White">>
workloads == <<10, 20, 30, 40>>
genders == <<"male", "female">>

\* array[randomInt(0, array.length - 1)]
randomElement(array, r) == array[randomInt(0, Len(array) - 1, r) + 1]

\* gender === "male" ? femaleNames : maleNames
NamePoolSwapped(gender) == IF gender = "male" THEN femaleNames ELSE maleNames

\* gender === "male" ? maleNames : femaleNames
NamePool(gender) == IF gender = "male" THEN maleNames ELSE femaleNames

\* 365.25 days, in units of six hours.
MS_PER_YEAR == 1461

-----------------------------------------------------------------------------
(* The outcomes of Math.random() that are explored.  In a list of at most  *)
(* MaxCount employees every call explores the smallest and the largest     *)
(* outcome.  In a longer list only the surname draws are explored: for the *)
(* k-th employee the first SurnameWidth surnames and the k-th surname of   *)
(* the pool; every other call returns 0.                                   *)

MaxCount == 1
SurnameWidth == 2

Wide == employeeCount <= MaxCount

Outcomes == IF Wide THEN {Zero, AlmostOne} ELSE {Zero}

SurnameOutcomes(k) ==
    IF Wide
    THEN {Zero, AlmostOne}
    ELSE {<<p, Len(surnames)>> :
            p \in (0 .. SurnameWidth - 1) \cup {(k - 1) % Len(surnames)}}

-----------------------------------------------------------------------------
(* The loop that generates the employees.                                  *)

\* i <= employeeCount
LoopConditionInclusive(k, n) == k <= n

\* i < employeeCount
LoopCondition(k, n) == k < n

\* main.js lines 183-198: the time value of the birth; toISOString throws a
\* RangeError when it is no valid time value.
BirthMs(r) ==
    now - randomInt(minAge * MS_PER_YEAR, maxAge * MS_PER_YEAR, r)

ValidTime(t) == -MaxTime <= t /\ t <= MaxTime

\* main.js lines 204-229: one iteration of the loop.
GenerateMain ==
    /\ pc = "loop"
    /\ variant = MainJs
    /\ LoopCondition(i, employeeCount)
    /\ \E rg \in Outcomes, rn \in Outcomes, rs \in SurnameOutcomes(i + 1),
          rb \in Outcomes, rw \in Outcomes :
          LET gender == randomElement(genders, rg)
              name == randomElement(NamePool(gender), rn)
              surname == randomElement(surnames, rs)
              birthMs == BirthMs(rb)
              workload == randomElement(workloads, rw)
          IN  /\ randomIntOk' = (randomIntOk
                                  /\ minAge * MS_PER_YEAR <= maxAge * MS_PER_YEAR)
              /\ IF ValidTime(birthMs)
                 THEN /\ employees' = Append(employees,
                              [name |-> name, surname |-> surname,
                               gender |-> gender,
                               birthdate |-> ToISOString(birthMs),
                               workload |-> workload])
                      /\ i' = i + 1
                      /\ pc' = pc
                 ELSE /\ pc' = "thrown"
                      /\ UNCHANGED <<employees, i>>
    /\ UNCHANGED <<variant, dtoIn, now, employeeCount, minAge, maxAge,
                   minCandidate, maxCandidate, generated>>

\* part_000 lines 102-120: "YYYY-MM-DD" as its three numbers; the day is
\* NaN when randomInt is given NaN as its upper bound.
randomBirthdate10(ry, rm, rd) ==
    LET currentYear == CurrentYear(now)
        year == randomInt(currentYear - maxAge, currentYear - minAge, ry)
        month == randomInt(1, 12, rm)
        daysInMonth == DaysInMonth(year, month)
    IN  [year |-> year, month |-> month,
         day |-> IF daysInMonth.nan THEN 0 ELSE randomInt(1, daysInMonth.n, rd),
         dayIsNaN |-> daysInMonth.nan]

\* part_000 lines 127-144: one iteration of the loop.
GeneratePart ==
    /\ pc = "loop"
    /\ variant = Part000
    /\ LoopCondition(i, employeeCount)
    /\ \E rg \in Outcomes, rn \in Outcomes, rs \in SurnameOutcomes(i + 1),
          ry \in Outcomes, rm \in Outcomes, rd \in Outcomes, rw \in Outcomes :
          LET gender == randomElement(genders, rg)
              name == randomElement(NamePool(gender), rn)
              surname == randomElement(surnames, rs)
              birthdate == randomBirthdate10(ry, rm, rd)
              workload == randomElement(workloads, rw)
          IN  /\ randomIntOk' = (randomIntOk
                                  /\ CurrentYear(now) - maxAge <= CurrentYear(now) - minAge
                                  /\ ~birthdate.dayIsNaN)
              /\ employees' = Append(employees,
                      [name |-> name, surname |-> surname, gender |-> gender,
                       birthdate |-> birthdate, workload |-> workload])
              /\ i' = i + 1
    /\ UNCHANGED <<variant, dtoIn, now, pc, employeeCount, minAge, maxAge,
                   minCandidate, maxCandidate, generated>>

-----------------------------------------------------------------------------
(* The surname repair pass of main.js and the return.                      *)

UsedSurnames(emps) == {emps[k].surname : k \in 1 .. Len(emps)}

\* surnames.filter((s) => !usedSurnames.has(s))
MissingSurnames(emps) ==
    SelectSeq(surnames, LAMBDA s : s \notin UsedSurnames(emps))

\* The loop of lines 244-249, from idx on (idx counts from 0).
RECURSIVE Overwrite(_, _, _)
Overwrite(emps, missing, idx) ==
    IF missing = <<>> \/ idx >= Len(emps)
    THEN emps
    ELSE Overwrite([emps EXCEPT ![idx + 1].surname = Head(missing)],
                   Tail(missing), idx + 1)

\* The same loop writing from the end of the list.
RECURSIVE OverwriteFromEnd(_, _, _)
OverwriteFromEnd(emps, missing, idx) ==
    IF missing = <<>> \/ idx >= Len(emps)
    THEN emps
    ELSE OverwriteFromEnd([emps EXCEPT ![Len(emps) - idx].surname = Head(missing)],
                          Tail(missing), idx + 1)

\* The repair pass writing from the end of the list.
RepairedFromEnd(emps, count) ==
    IF count >= Len(surnames)
       /\ Cardinality(UsedSurnames(emps)) < Len(surnames)
    THEN OverwriteFromEnd(emps, MissingSurnames(emps), 0)
    ELSE emps

\* main.js lines 235-251.
Repaired(emps, count) ==
    IF count >= Len(surnames)
       /\ Cardinality(UsedSurnames(emps)) < Len(surnames)
    THEN Overwrite(emps, MissingSurnames(emps), 0)
    ELSE emps

\* main.js lines 231-254: the loop has ended; repair, then return.
RepairAndReturn ==
    /\ pc = "loop"
    /\ variant = MainJs
    /\ ~LoopCondition(i, employeeCount)
    /\ generated' = employees
    /\ employees' = Repaired(employees, employeeCount)
    /\ pc' = "done"
    /\ UNCHANGED <<variant, dtoIn, now, employeeCount, minAge, maxAge,
                   minCandidate, maxCandidate, i, randomIntOk>>

\* part_000 line 146: the loop has ended; return.
ReturnPart ==
    /\ pc = "loop"
    /\ variant = Part000
    /\ ~LoopCondition(i, employeeCount)
    /\ generated' = employees
    /\ pc' = "done"
    /\ UNCHANGED <<variant, dtoIn, now, employeeCount, minAge, maxAge,
                   minCandidate, maxCandidate, i, employees, randomIntOk>>

-----------------------------------------------------------------------------
(* The inputs and the clock.                                               *)

\* {min: a, max: b}
Range(a, b) == Obj(Props({<<"min", Num(a)>>, <<"max", Num(b)>>}))

\* Age ranges: a single age, the youngest ages, a reversed range, and ages
\* further back than a Date reaches.
AgeRanges ==
    {Range(70, 70), Range(1, 1), Range(0, 1), Range(70, 10),
     Range(300000, 300000), Range(0, 300000)}

\* The inputs with a list of at most MaxCount employees.
ShortInputs ==
    {Undefined, Null, Num(-1), NonInteger, Str(1), Bool(TRUE), Obj(Props({}))}
    \cup {Num(n) : n \in 0 .. MaxCount}
    \cup {Obj(Props({<<key, Num(n)>>})) :
            key \in {"employeeCount", "personCount", "count"}, n \in 0 .. MaxCount}
    \cup {Obj(Props({<<"employeeCount", first>>, <<"personCount", Num(1)>>})) :
            first \in {Null, Str(1), Num(-1), NonInteger}}
    \cup {Obj(Props({<<"employeeCount", Num(n)>>, <<"ageRange", range>>})) :
            n \in 0 .. MaxCount, range \in AgeRanges}

\* The inputs of main.js whose list is long enough for the repair pass.
LongInputs == {Num(Len(surnames)), Num(Len(surnames) + 1)}

\* Noon of an ordinary day, noon of the day after a 29 February, and the
\* first hours of a 29 February.
Clock ==
    {Instant(2026, 11, 5, 12), Instant(2028, 3, 1, 12), Instant(2024, 2, 29, 0)}

InitCommon ==
    /\ pc = "start"
    /\ employeeCount = 0
    /\ minAge = DefaultMinAge
    /\ maxAge = DefaultMaxAge
    /\ minCandidate = Undefined
    /\ maxCandidate = Undefined
    /\ i = 0
    /\ employees = <<>>
    /\ generated = <<>>
    /\ randomIntOk = TRUE

Init ==
    /\ \/ /\ variant \in {MainJs, Part000}
          /\ dtoIn \in ShortInputs
          /\ now \in Clock
       \/ /\ variant = MainJs
          /\ dtoIn \in LongInputs
          /\ now = Instant(2026, 11, 5, 12)
    /\ InitCommon

Next ==
    \/ NormalizeMain
    \/ NormalizePart
    \/ GenerateMain
    \/ GeneratePart
    \/ RepairAndReturn
    \/ ReturnPart

Spec == Init /\ [][Next]_vars

-----------------------------------------------------------------------------
(* Normalisation alone, over inputs that spell the age bounds in many ways. *)

Pair(key, value) == {<<key, value>>}

\* Ways one object spells a lower bound.
MinSide ==
    {{}, Pair("min", Num(30)), Pair("min", Null), Pair("min", Str(1)),
     Pair("youngest", Num(30)), Pair("youngest", Null),
     Pair("min", Null) \cup Pair("minAge", Num(30)),
     Pair("min", Num(30)) \cup Pair("minAge", Num(70)),
     Pair("lower", Null) \cup Pair("youngest", Num(70))}

\* Ways one object spells an upper bound.
MaxSide ==
    {{}, Pair("max", Num(20)), Pair("max", Null), Pair("max", NonInteger),
     Pair("oldest", Num(40)), Pair("oldest", Null),
     Pair("max", Null) \cup Pair("maxAge", Num(80)),
     Pair("max", Num(40)) \cup Pair("maxAge", Num(80)),
     Pair("upper", Null) \cup Pair("oldest", Num(20))}

SimpleMin == {{}, Pair("min", Num(30)), Pair("min", Num(70))}
SimpleMax == {{}, Pair("max", Num(20)), Pair("max", Num(80))}

\* What the property ageRange (or age) may hold: nothing, a number, or an
\* object spelling a bound.
SubObject(key, sides) ==
    {{}, Pair(key, Num(5))} \cup {Pair(key, Obj(Props(side))) : side \in sides}

NormalizeInputs ==
    {Obj(Props(ageRange \cup age \cup top \cup other)) :
        ageRange \in SubObject("ageRange", MinSide),
        age \in SubObject("age", MinSide),
        top \in MinSide, other \in SimpleMax}
    \cup
    {Obj(Props(ageRange \cup age \cup top \cup other)) :
        ageRange \in SubObject("ageRange", MaxSide),
        age \in SubObject("age", MaxSide),
        top \in MaxSide, other \in SimpleMin}
    \cup
    {Obj(Props(Pair("ageRange", Range(a, b)))) :
        a \in {0, 30, 70}, b \in {-1, 10, 20, 65, 80}}
    \cup {Undefined, Null, Num(3), Str(1)}

InitNormalize ==
    /\ variant \in {MainJs, Part000}
    /\ dtoIn \in NormalizeInputs
    /\ now = Instant(2026, 11, 5, 12)
    /\ InitCommon

NextNormalize ==
    \/ NormalizeMain
    \/ NormalizePart

SpecNormalize == InitNormalize /\ [][NextNormalize]_vars

-----------------------------------------------------------------------------
(* What the claims speak of, stated without the operators of the model.    *)

Returned == pc = "done"

Today == CivilFromDays(now \div UnitsPerDay)

\* Whole years from the birth date to today: the difference of the years,
\* less one while this year's birthday is still to come.
CalendarAge(birth) ==
    Today.year - birth.year
    - (IF Today.month < birth.month
          \/ (Today.month = birth.month /\ Today.day < birth.day)
       THEN 1 ELSE 0)

SeqRange(seq) == {seq[k] : k \in 1 .. Len(seq)}

\* The first of the given keys under which x holds a value that is neither
\* undefined nor null; 0 when there is none.
FirstDefinedKey(x, keys) ==
    IF \E k \in 1 .. Len(keys) : ~IsNullish(Get(x, keys[k]))
    THEN CHOOSE k \in 1 .. Len(keys) :
            /\ ~IsNullish(Get(x, keys[k]))
            /\ \A j \in 1 .. k - 1 : IsNullish(Get(x, keys[j]))
    ELSE 0

\* The count a request asks for.
ClaimedCount(x) ==
    IF x.t = "integer"
    THEN IF x.v >= 0 THEN x.v ELSE 0
    ELSE IF x.t = "object" /\ FirstDefinedKey(x, CountKeys) # 0
         THEN LET given == x.f[CountKeys[FirstDefinedKey(x, CountKeys)]]
              IN  IF given.t = "integer" /\ given.v >= 0 THEN given.v ELSE 0
         ELSE 0

\* C1: the returned list has exactly as many employees as the request's
\* resolved employeeCount (the valid count given, otherwise 0), in both
\* variants and after the repair pass of main.js.
C1_LengthIsEmployeeCount ==
    Returned => /\ Len(employees) = employeeCount
                /\ employeeCount = ClaimedCount(dtoIn)

\* C1 witness: main.js has returned a list of nine that the repair pass changed.
C1_Witness ==
    /\ Returned
    /\ variant = MainJs
    /\ Len(employees) = Len(surnames) + 1
    /\ employees # generated

\* C2: in main.js every birthdate gives a whole-years calendar age, at the
\* current date, within [minAge, maxAge].
C2_AgeWithinRangeISO ==
    variant = MainJs =>
        \A k \in 1 .. Len(employees) :
            /\ minAge <= CalendarAge(employees[k].birthdate)
            /\ CalendarAge(employees[k].birthdate) <= maxAge

\* C2 with the age counted in years of 365.25 days: the time from the
\* birthdate to now is within [minAge, maxAge] such years.
C2_AgeInAverageYears ==
    variant = MainJs =>
        \A k \in 1 .. Len(employees) :
            LET b == employees[k].birthdate
                lived == now - Instant(b.year, b.month, b.day, b.hour)
            IN  /\ minAge * MS_PER_YEAR <= lived
                /\ lived <= maxAge * MS_PER_YEAR

\* C3: in part_000 every birthdate gives a whole-years age, at the current
\* date, within [minAge, maxAge].
C3_AgeWithinRangeDateOnly ==
    variant = Part000 =>
        \A k \in 1 .. Len(employees) :
            /\ ~employees[k].birthdate.dayIsNaN
            /\ minAge <= CalendarAge(employees[k].birthdate)
            /\ CalendarAge(employees[k].birthdate) <= maxAge

\* C4: in main.js, when employeeCount is at least the size of the surname
\* pool, every surname of the pool is in the returned list.
C4_EverySurnameAppears ==
    (Returned /\ variant = MainJs /\ employeeCount >= Len(surnames)) =>
        \A s \in SeqRange(surnames) :
            \E k \in 1 .. Len(employees) : employees[k].surname = s

\* C5: main never raises.
C5_NeverRaises == pc # "thrown"

\* C7: every employee has a gender of the two, a name of the pool of that
\* gender, a surname of the pool and a workload of the four, also after the
\* repair pass.
C7_FieldsFromPools ==
    \A k \in 1 .. Len(employees) :
        LET e == employees[k]
        IN  /\ e.gender \in {"male", "female"}
            /\ e.gender = "male" => e.name \in SeqRange(maleNames)
            /\ e.gender = "female" => e.name \in SeqRange(femaleNames)
            /\ e.surname \in SeqRange(surnames)
            /\ e.workload \in {10, 20, 30, 40}

\* C7 witness: a returned list of main.js in which the repair pass gave the
\* first employee another surname.
C7_Witness ==
    /\ Returned
    /\ variant = MainJs
    /\ Len(employees) >= Len(surnames)
    /\ employees[1].surname # generated[1].surname
    /\ employees[1].name \in SeqRange(maleNames)

\* C8: after normalisation employeeCount is a natural number and
\* 0 <= minAge <= maxAge, randomInt is only ever called with min <= max,
\* and the range is 18..65 when no age bound is supplied.
C8_ResolvedParameters ==
    pc # "start" =>
        /\ employeeCount \in Nat
        /\ 0 <= minAge /\ minAge <= maxAge
        /\ randomIntOk
        /\ (minCandidate.t = "undefined" /\ maxCandidate.t = "undefined")
              => (minAge = 18 /\ maxAge = 65)

\* C8 without its clause on randomInt: the resolved parameters alone.
C8_NormalisedOnly ==
    pc # "start" =>
        /\ employeeCount \in Nat
        /\ 0 <= minAge /\ minAge <= maxAge
        /\ (minCandidate.t = "undefined" /\ maxCandidate.t = "undefined")
              => (minAge = 18 /\ maxAge = 65)

\* The list the repair pass is said to return for the generated list: the
\* first K employees take the K missing surnames in pool order.
ClaimedRepair(list) ==
    LET missing == SelectSeq(surnames,
                       LAMBDA s : \A k \in 1 .. Len(list) : list[k].surname # s)
    IN  IF Len(list) < 8 \/ Len(missing) = 0
        THEN list
        ELSE [k \in 1 .. Len(list) |->
                IF k <= Len(missing)
                THEN [name |-> list[k].name, surname |-> missing[k],
                      gender |-> list[k].gender,
                      birthdate |-> list[k].birthdate,
                      workload |-> list[k].workload]
                ELSE list[k]]

\* C10: the repair pass of main.js changes only the surnames of the first K
\* employees, K the number of missing surnames, giving them the missing
\* surnames in pool order; with fewer than 8 employees or no surname
\* missing the list is returned as generated.
C10_RepairFrame ==
    (Returned /\ variant = MainJs) => employees = ClaimedRepair(generated)

\* C10 witness: the repair pass has rewritten two or more surnames and left
\* a later one alone.
C10_Witness ==
    /\ Returned
    /\ variant = MainJs
    /\ Len(employees) >= Len(surnames)
    /\ employees[1].surname # generated[1].surname
    /\ employees[2].surname # generated[2].surname
    /\ employees[Len(employees)].surname = generated[Len(employees)].surname
    /\ \E k \in 1 .. Len(employees) : employees[k].surname = "Smith"

\* C10, the other case: a list of eight or more with no surname missing.
C10_NothingMissing ==
    /\ Returned
    /\ variant = MainJs
    /\ Len(employees) >= Len(surnames)
    /\ Cardinality(UsedSurnames(generated)) = Len(surnames)

-----------------------------------------------------------------------------
(* Claims about the normalisation (specification SpecNormalize).           *)

SuppliedReversed ==
    /\ pc # "start"
    /\ minCandidate.t = "integer" /\ minCandidate.v >= 0
    /\ maxCandidate.t \in {"integer", "fraction"}
    /\ maxCandidate.v < minCandidate.v

\* C6 as stated: a valid lower bound with a smaller upper bound resolves to
\* maxAge = minAge.
C6_ClampedToMinAge ==
    SuppliedReversed => (minAge = minCandidate.v /\ maxAge = minAge)

\* C6 as amended: the smaller upper bound is dropped for the default 65, and
\* maxAge is raised to minAge only when minAge is above 65.
C6_DefaultThenClamp ==
    SuppliedReversed =>
        /\ minAge = minCandidate.v
        /\ maxAge = (IF minAge > 65 THEN minAge ELSE 65)

\* C6 witness: {min: 70, max: 10} has resolved to 70..70.
C6_Witness ==
    /\ SuppliedReversed
    /\ minCandidate.v = 70 /\ maxCandidate.v = 10
    /\ minAge = 70 /\ maxAge = 70

\* The sources of main.js in their order: the ageRange object, the age
\* object, the request itself.
ClaimedSources ==
    (IF Get(dtoIn, "ageRange").t = "object" THEN <<dtoIn.f["ageRange"]>> ELSE <<>>)
    \o (IF Get(dtoIn, "age").t = "object" THEN <<dtoIn.f["age"]>> ELSE <<>>)
    \o <<dtoIn>>

\* The value of the first source that has a defined value under an alias,
\* its aliases tried in order; undefined when no source has one.
ClaimedCandidate(aliases) ==
    LET has(n) == FirstDefinedKey(ClaimedSources[n], aliases) # 0
    IN  IF \E n \in 1 .. Len(ClaimedSources) : has(n)
        THEN LET n == CHOOSE n \in 1 .. Len(ClaimedSources) :
                         has(n) /\ \A j \in 1 .. n - 1 : ~has(j)
                 src == ClaimedSources[n]
             IN  src.f[aliases[FirstDefinedKey(src, aliases)]]
        ELSE Undefined

\* C9: in main.js each bound's candidate is the value of the first source
\* (ageRange, age, the request) with a defined value under one of the
\* bound's aliases, the two bounds apart; a candidate that fails validation
\* gives the default and no later source is asked.
C9_FirstDefinedCandidate ==
    (variant = MainJs /\ pc # "start" /\ dtoIn.t = "object") =>
        LET lo == ClaimedCandidate(MinAliases)
            hi == ClaimedCandidate(MaxAliases)
        IN  /\ IF IsNullish(lo) THEN IsNullish(minCandidate) ELSE minCandidate = lo
            /\ IF IsNullish(hi) THEN IsNullish(maxCandidate) ELSE maxCandidate = hi
            /\ minAge = (IF lo.t = "integer" /\ lo.v >= 0 THEN lo.v ELSE 18)
            /\ maxAge = (IF hi.t = "integer" /\ hi.v >= minAge THEN hi.v
                         ELSE IF minAge > 65 THEN minAge ELSE 65)

\* No alias of a source holds null.
NoNullAlias ==
    \A n \in 1 .. Len(ClaimedSources) :
        \A k \in 1 .. Len(MinAliases) :
            /\ Get(ClaimedSources[n], MinAliases[k]).t # "null"
            /\ Get(ClaimedSources[n], MaxAliases[k]).t # "null"

\* C9 on the requests in which no alias holds null.
C9_WithoutNull ==
    (dtoIn.t = "object" /\ NoNullAlias) => C9_FirstDefinedCandidate

====
